---------------------------- MODULE Spec2Model ----------------------------
(***************************************************************************)
(* budgeteer-backend: the deal ingestion pipeline.                         *)
(*                                                                         *)
(*   src/app.py            Deal table, POST /api/admin/deals/bulk,         *)
(*                         retention sweep, delete-sample-deals            *)
(*   src/run_scrapers.py   _normalize_deals, run_*_scraper,                *)
(*                         run_all_scrapers, upload_deals                  *)
(*   src/scrapers/*.py     the five source adapters                        *)
(*                                                                         *)
(* Spec     : one server worker, requests executed one at a time.          *)
(* SpecConc : two server workers whose bulk requests interleave.           *)
(* SpecRun  : one run of run_all_scrapers over the five adapters.          *)
(***************************************************************************)
EXTENDS Integers, Sequences, FiniteSets, TLC

VARIABLES
    deals,      \* committed rows of table `deals`
    now,        \* datetime.utcnow(), in days
    ticks,      \* how often the clock was advanced
    pc,         \* per worker: "idle" | "loop" | "done"
    batch,      \* per worker: request body, a sequence of indices into Samples
    idx,        \* per worker: position of the for-loop in the batch
    added,      \* per worker: local variable `added`
    sess,       \* per worker: db.session (flushed inserts, updates, pending)
    resp,       \* per worker: the response being returned
    pre,        \* per worker: committed rows when the request started
    live,       \* per worker: batch positions whose write the session holds
    lastUpd,    \* per worker: the last in-place update (row before, row after)
    rolled,     \* per worker: db.session.rollback() ran during this request
    rstep,      \* run_all_scrapers: 0 not started, 1..5 the adapter to run
                \* next, 6 the batch is complete, 7 returned
    net,        \* per adapter: what its external source did
    result,     \* per adapter: what scrape_deals did at its boundary
    produced,   \* per adapter: what run_<adapter>_scraper returned
    all_deals,  \* run_all_scrapers: the combined batch
    api_url,    \* run_all_scrapers: its argument
    posted,     \* the batch handed to upload_deals, <<>> if none yet
    posts,      \* upload_deals: the targets posted to, with their answers
    upload_ok,  \* what upload_deals returned
    rc,         \* exit status of run_all_scrapers, -1 while running
    ncall,      \* _normalize_deals: the arguments of the call in progress
    nret,       \* _normalize_deals: what the call did (raised, or its value)
    trip,       \* one product name on its way from a source to the table
    stores,     \* committed rows of table `stores`
    seed,       \* per importing process: its run of _init_db_once
    fetch       \* fetch_publication_products: the call and its requests

dbvars  == <<deals, now, ticks, pc, batch, idx, added, sess, resp,
             pre, live, lastUpd, rolled>>
runvars == <<rstep, net, result, produced, all_deals, api_url, posted, posts,
             upload_ok, rc>>
normvars == <<ncall, nret, trip>>
storevars == <<stores, seed>>
fetchvars == <<fetch>>
vars    == <<dbvars, runvars, normvars, storevars, fetchvars>>

---------------------------------------------------------------------------
(* Bounds of the model *)
MaxBatch == 2       \* longest request body
MaxTicks == 1       \* clock advances
MaxCands == 3       \* longest list handed to _normalize_deals

---------------------------------------------------------------------------
(* Python values *)
None   == "<None>"          \* None / SQL NULL in a text column
NoTime == -1                \* None / SQL NULL in a DateTime column

Truthy(v) == v # None /\ v # ""
Or(a, b)  == IF Truthy(a) THEN a ELSE b               \* a or b
Get(d, k) == IF k \in DOMAIN d THEN d[k] ELSE None     \* d.get(k)

RETENTION_DAYS == 30

\* datetime.isoformat() on the model's clock
IsoFormat(t) == "D" \o ToString(t)
TimeRange    == 0..(MaxTicks * (RETENTION_DAYS + 1) + 7)



---------------------------------------------------------------------------
(* The Deal table: src/app.py, class Deal *)
TextCols == {"store_name", "product_name", "price", "original_price",
             "discount", "category", "description", "image_url", "deal_url"}
DateCols == {"valid_from", "valid_until"}
allowed_fields == TextCols \cup DateCols
DealCols == {"id"} \cup allowed_fields \cup {"created_at", "updated_at"}

\* the clamp of _normalize_deals, the width of Deal.product_name
PRODUCT_NAME_MAX == 500

\* steps 1 and 2 of the loop body: strip unknown keys, parse the two dates.
\* A value that is absent from the mapping stays absent; None stays None.
\* datetime.fromisoformat(v) raises on a text that is no timestamp, and the
\* handler then stores None
IsIso(v)     == \E t \in TimeRange : IsoFormat(t) = v
ParseDate(v) == IF v = None THEN NoTime
                ELSE IF IsIso(v) THEN CHOOSE t \in TimeRange : IsoFormat(t) = v
                ELSE NoTime
\* (mutant) every key of the request element is kept
DealData_NoStrip(incoming) ==
    [k \in DOMAIN incoming |->
        IF k \in DateCols THEN ParseDate(incoming[k]) ELSE incoming[k]]

DealData(incoming) ==
    [k \in (DOMAIN incoming) \cap allowed_fields |->
        IF k \in DateCols THEN ParseDate(incoming[k]) ELSE incoming[k]]

\* deal_data.get(k), typed by column
Col(dd, k) == IF k \in DOMAIN dd THEN dd[k]
              ELSE IF k \in DateCols THEN NoTime ELSE None

\* nullable=False on store_name and product_name: the INSERT raises otherwise
NotNullOk(dd) == Col(dd, "store_name") # None /\ Col(dd, "product_name") # None

\* the row an INSERT of Deal(**deal_data) writes at time t with primary key i:
\* a column whose attribute is None takes its column default if it has one
\* (mutant) valid_from is written as the record gives it
NewRow_NoDefault(dd, i, t) ==
    [c \in DealCols |->
        IF c = "id" THEN i
        ELSE IF c \in {"created_at", "updated_at"} THEN t
        ELSE Col(dd, c)]

NewRow(dd, i, t) ==
    [c \in DealCols |->
        IF c = "id" THEN i
        ELSE IF c \in {"created_at", "updated_at"} THEN t
        ELSE IF c = "valid_from"
             THEN (IF Col(dd, c) = NoTime THEN t ELSE Col(dd, c))
        ELSE Col(dd, c)]

\* (mutant) the row is rebuilt from the record alone
ApplyUpdate_Replace(existing, dd, t) ==
    [c \in DealCols |->
        IF c = "updated_at" THEN t
        ELSE IF c \in {"id", "created_at"} THEN existing[c]
        ELSE Col(dd, c)]

\* (mutant) the update leaves updated_at as it was
ApplyUpdate_NoStamp(existing, dd, t) ==
    [c \in DealCols |->
        IF c \in DOMAIN dd THEN dd[c] ELSE existing[c]]

\* for k, v in deal_data.items(): setattr(existing, k, v)
\* existing.updated_at = datetime.utcnow()
ApplyUpdate(existing, dd, t) ==
    [c \in DealCols |->
        IF c = "updated_at" THEN t
        ELSE IF c \in DOMAIN dd THEN dd[c]
        ELSE existing[c]]

\* Deal.query.filter_by(store_name=..., product_name=...): the matching rows.
\* A None argument renders as IS NULL and no stored row has a NULL key.
Matching(rows, dd) ==
    {r \in rows : /\ r["store_name"] = Col(dd, "store_name")
                  /\ r["product_name"] = Col(dd, "product_name")}

KeyOf(r) == <<r["store_name"], r["product_name"]>>

---------------------------------------------------------------------------
(* Candidate records and the Normalizer: src/run_scrapers.py *)

\* a candidate that is not a dict, and a value that is not text (a number)
NonDict    == [nonmapping |-> "text"]
IsDict(x)  == "nonmapping" \notin DOMAIN x
NonText    == "<number>"
IsText(v)  == v # NonText /\ v # None

Take(s, n)   == SubSeq(s, 1, IF Len(s) < n THEN Len(s) ELSE n)   \* s[:n]
Prefix(t, n) == IF Len(t) > n THEN SubSeq(t, 1, n) ELSE t        \* t[:n]

\* (mutant) no placeholder is generated
ChosenName_NoPlaceholder(d, i, fallback_name_prefix) ==
    Or(Get(d, "product_name"),
       Or(Get(d, "description"), Or(Get(d, "title"), Or(Get(d, "name"), ""))))

\* (mutant) the title is preferred to the description
ChosenName_TitleFirst(d, i, fallback_name_prefix) ==
    IF Truthy(Get(d, "product_name")) THEN Get(d, "product_name")
    ELSE LET desc == Or(Get(d, "title"),
                        Or(Get(d, "description"), Or(Get(d, "name"), "")))
         IN  IF Truthy(desc) THEN desc
             ELSE fallback_name_prefix \o " #" \o ToString(i + 1)

\* (mutant) the placeholder carries the 0-based index
ChosenName_ZeroBased(d, i, fallback_name_prefix) ==
    IF Truthy(Get(d, "product_name")) THEN Get(d, "product_name")
    ELSE LET desc == Or(Get(d, "description"),
                        Or(Get(d, "title"), Or(Get(d, "name"), "")))
         IN  IF Truthy(desc) THEN desc
             ELSE fallback_name_prefix \o " #" \o ToString(i)

\* the body of the for-loop of _normalize_deals for candidate d at index i
\* (0-based): the product name chosen, before the clamp
ChosenName(d, i, fallback_name_prefix) ==
    IF Truthy(Get(d, "product_name")) THEN Get(d, "product_name")
    ELSE LET desc == Or(Get(d, "description"),
                        Or(Get(d, "title"), Or(Get(d, "name"), "")))
         IN  IF Truthy(desc) THEN desc
             ELSE fallback_name_prefix \o " #" \o ToString(i + 1)

\* len(product_name) raises TypeError on a value that is not text
ClampRaises(d, i, fallback_name_prefix) ==
    LET n == ChosenName(d, i, fallback_name_prefix)
    IN  Truthy(n) /\ ~IsText(n)

NormalizeOne(d, i, default_store, fallback_name_prefix) ==
    LET store_name   == Or(Get(d, "store_name"),
                           Or(Get(d, "store"), default_store))
        product_name == Prefix(ChosenName(d, i, fallback_name_prefix),
                               PRODUCT_NAME_MAX)
    IN  [k \in (DOMAIN d) \cup {"store_name", "product_name"} |->
            IF k = "store_name" THEN Or(store_name, "Unknown Store")
            ELSE IF k = "product_name" THEN product_name
            ELSE d[k]]

NormIdx(deals_in) == {i \in 1..Len(deals_in) : IsDict(deals_in[i])}

\* _normalize_deals raises when the clamp of some candidate raises
NormalizeRaises(deals_in, default_store, fallback_name_prefix) ==
    \E i \in NormIdx(deals_in) :
        ClampRaises(deals_in[i], i - 1, fallback_name_prefix)

RECURSIVE NormalizeFrom(_, _, _, _)
NormalizeFrom(deals_in, i, default_store, fallback_name_prefix) ==
    IF i > Len(deals_in) THEN <<>>
    ELSE (IF IsDict(deals_in[i])
          THEN <<NormalizeOne(deals_in[i], i - 1, default_store,
                              fallback_name_prefix)>>
          ELSE <<>>)
         \o NormalizeFrom(deals_in, i + 1, default_store, fallback_name_prefix)

normalize_deals(deals_in, default_store, fallback_name_prefix) ==
    NormalizeFrom(deals_in, 1, default_store, fallback_name_prefix)


---------------------------------------------------------------------------
(* The records the five adapters build: src/scrapers/*.py *)

\* aldi_scraper.py, _normalize_aldi_product, after scrape_deals popped the
\* three temporary keys
normalize_aldi_product(p) ==
    [store_name     |-> "Aldi",
     product_name   |-> Prefix(Or(p.name, ""), 200),
     price          |-> p.price,
     original_price |-> None,
     discount       |-> None,
     category       |-> p.category,
     description    |-> Or(Or(p.brandName, ""), None),
     image_url      |-> None,
     deal_url       |-> IF Truthy(p.urlSlugText)
                        THEN "https://www.aldi.us/" \o p.urlSlugText ELSE None,
     valid_from     |-> None,
     valid_until    |-> None]

\* marcs_scraper.py, MarcsScraper.scrape_deals: the deal of the i-th active
\* offer (i from 1) scraped at time t
marcs_deal(off, i, t) ==
    [store_name     |-> "Marc's",
     product_name   |-> Prefix(Or(off.ShortDescription,
                                  Or(off.OfferDescription,
                                     Or(off.ValueText,
                                        "Marc's offer " \o ToString(i)))), 200),
     price          |-> None,
     original_price |-> None,
     discount       |-> off.ValueText,
     category       |-> off.Category,
     description    |-> off.OfferDescription,
     image_url      |-> off.ImageURL,
     deal_url       |-> off.AvailabilityLink,
     valid_from     |-> Or(off.ActiveDate, IsoFormat(t)),
     valid_until    |-> Or(off.ExpirationDate, IsoFormat(t + 7))]

\* walmart_scraper.py, WalmartScraper._normalize_product, for a product that
\* has a name and a price
walmart_normalize_product(p) ==
    [store_name     |-> "Walmart",
     product_name   |-> Prefix(p.name, 200),
     price          |-> IF Truthy(p.savings)
                        THEN p.priceDisplay \o " (" \o p.savings \o ")"
                        ELSE p.priceDisplay,
     original_price |-> p.wasPrice,
     rating         |-> p.averageRating,
     reviews        |-> p.numberOfReviews,
     badges         |-> p.badges,
     image_url      |-> p.thumbnailUrl,
     deal_url       |-> IF Truthy(p.canonicalUrl)
                        THEN "https://www.walmart.com" \o p.canonicalUrl
                        ELSE None]

\* giant_eagle_scraper.py, GiantEagleScraper.scrape_deals: the deal of a node
\* that has a name and a price, scraped at time t
giant_eagle_deal(node, store_label, t) ==
    [store_name     |-> "Giant Eagle (" \o store_label \o ")",
     product_name   |-> Prefix(node.name, 200),
     price          |-> "$" \o node.price,
     original_price |-> IF Truthy(node.comparedPrice)
                        THEN "$" \o node.comparedPrice ELSE None,
     discount       |-> node.discount,
     category       |-> Or(node.category, "Grocery"),
     description    |-> node.description,
     image_url      |-> node.image,
     deal_url       |-> IF Truthy(node.sku)
                        THEN "https://www.gianteagle.com/" \o store_label
                             \o "/search/product/" \o node.sku
                        ELSE None,
     valid_from     |-> IsoFormat(t),
     valid_until    |-> IsoFormat(t + 7)]

\* dollar_general_scraper.py, normalize_offer
normalize_offer(raw) ==
    [offer_id    |-> raw.id,
     title       |-> raw.name,
     description |-> raw.description,
     image       |-> raw.image_url,
     sale_story  |-> raw.sale_story,
     price_text  |-> raw.price_text,
     valid_from  |-> raw.valid_from,
     valid_to    |-> raw.valid_to,
     web_url     |-> raw.item_web_url]


---------------------------------------------------------------------------
(* Request bodies of POST /api/admin/deals/bulk *)

\* one of the three names delete_sample_deals removes
SampleName == "Tyson Chicken Nuggets, 2 lb"
sample_names == {"Great Value Pizza, Pepperoni, 12\"", SampleName,
                 "Coca-Cola, 12 pack cans"}

AldiProduct == [name |-> "Whole Milk", brandName |-> "Friendly Farms",
                price |-> "$2.95", category |-> "Food",
                urlSlugText |-> None]
WalmartProduct == [name |-> SampleName, priceDisplay |-> "Now $4.99",
                   savings |-> None, wasPrice |-> "$5.99",
                   averageRating |-> "4.5", numberOfReviews |-> "120",
                   badges |-> "Rollback", thumbnailUrl |-> None,
                   canonicalUrl |-> None]

\* The elements a request body is made of:
\*   1  a hand-written record with a category, a valid_from that is no
\*      timestamp, a valid_until that is one, an id and a created_at
\*   2  the Walmart adapter's record for the same (store_name, product_name)
\*   3  the Aldi adapter's record
\*   4  a record without store_name
\*   5  an element that is not a mapping
Samples ==
    << [store_name |-> "Walmart", product_name |-> SampleName,
        price |-> "$5.99", category |-> "Frozen", id |-> 7, created_at |-> 1,
        valid_from |-> "tomorrow", valid_until |-> IsoFormat(RETENTION_DAYS + 1)],
       normalize_deals(<<walmart_normalize_product(WalmartProduct)>>,
                       "Walmart", "Walmart item")[1],
       normalize_deals(<<normalize_aldi_product(AldiProduct)>>,
                       "ALDI", "Aldi item")[1],
       [product_name |-> "Large Eggs", price |-> "$2.00"],
       NonDict >>
SampleIds == 1..Len(Samples)
FromPipeline == {2, 3}
\* deal_data of each sample that is a mapping
SampleData == [s \in {x \in SampleIds : IsDict(Samples[x])} |->
                 DealData(Samples[s])]

Batches    == UNION {[1..n -> SampleIds] : n \in 0..MaxBatch}
RunBatches == UNION {[1..n -> FromPipeline] : n \in 1..MaxBatch}

\* a record the loop body can apply: a mapping with both key columns
Valid(s) == IsDict(Samples[s]) /\ NotNullOk(SampleData[s])
SampleKey(s) == <<Col(SampleData[s], "store_name"),
                  Col(SampleData[s], "product_name")>>

---------------------------------------------------------------------------
(* db.session: one transaction per request *)
Workers  == {1, 2}
NoSess   == [ins |-> {}, upd |-> {}, new |-> <<>>]
NoResp   == [op |-> "", status |-> 0, processed |-> 0, added |-> 0, deleted |-> 0]

\* the rows a query of this session sees: the committed rows, with this
\* transaction's own updates and flushed inserts
View(rows, s) ==
    {IF \E u \in s.upd : u["id"] = r["id"]
     THEN CHOOSE u \in s.upd : u["id"] = r["id"] ELSE r : r \in rows}
    \cup s.ins

\* autoflush before a query (and the flush of commit): INSERT the pending
\* objects, which raises IntegrityError on a NULL key column
FlushOk(s) == \A j \in 1..Len(s.new) : NotNullOk(s.new[j])
Flush(s, id0, t) ==
    [ins |-> s.ins \cup {NewRow(s.new[j], id0 + j - 1, t) : j \in 1..Len(s.new)},
     upd |-> s.upd,
     new |-> <<>>]

\* (mutant) the query runs without autoflush against the committed rows
FindExisting_NoAutoflush(rows, s, dd) == Matching(rows, dd)

\* Deal.query.filter_by(...).first() in this session
FindExisting(rows, s, dd) == Matching(View(rows, s), dd)

\* setattr on a row this session loaded or inserted
WithUpdate(s, old, new) ==
    IF old \in s.ins
    THEN [s EXCEPT !.ins = (s.ins \ {old}) \cup {new}]
    ELSE [s EXCEPT !.upd = {u \in s.upd : u["id"] # old["id"]} \cup {new}]

\* db.session.rollback(): every uncommitted change of the transaction goes
Rollback(s) == NoSess

\* db.session.commit() after a successful flush: the rows of the table
Committed(rows, s) == View(rows, s)
\* the UPDATE of a row another transaction deleted matches no row
Stale(rows, s) == \E u \in s.upd : ~\E r \in rows : r["id"] = u["id"]


---------------------------------------------------------------------------
(* Requests: src/app.py *)

\* id = db.Column(db.Integer, primary_key=True): the key an INSERT of worker
\* w is given, one more than the largest key in the table or handed to a
\* transaction that is still open
NextId(w) ==
    LET used == {r["id"] : r \in deals}
                \cup UNION {{r["id"] : r \in sess[v].ins} : v \in Workers}
    IN  IF used = {} THEN 1
        ELSE 1 + CHOOSE m \in used : \A x \in used : x <= m

Reset(w) ==
    /\ batch'   = [batch   EXCEPT ![w] = <<>>]
    /\ idx'     = [idx     EXCEPT ![w] = 1]
    /\ added'   = [added   EXCEPT ![w] = 0]
    /\ sess'    = [sess    EXCEPT ![w] = NoSess]
    /\ pre'     = [pre     EXCEPT ![w] = {}]
    /\ live'    = [live    EXCEPT ![w] = {}]
    /\ lastUpd' = [lastUpd EXCEPT ![w] = {}]
    /\ rolled'  = [rolled  EXCEPT ![w] = FALSE]

\* bulk_add_deals, lines 173-192: the body is a list, one of `bodies`
BulkBeginFrom(w, bodies) ==
    /\ pc[w] = "idle"
    /\ \E b \in bodies :
         /\ batch' = [batch EXCEPT ![w] = b]
    /\ pc'  = [pc EXCEPT ![w] = "loop"]
    /\ pre' = [pre EXCEPT ![w] = deals]
    /\ UNCHANGED <<deals, now, ticks, idx, added, sess, resp, live,
                   lastUpd, rolled, runvars, normvars, storevars, fetchvars>>

BulkBegin(w) == BulkBeginFrom(w, Batches)
\* the batch of an ingestion run: what upload_deals posts
RunBegin(w)  == BulkBeginFrom(w, RunBatches)

\* bulk_add_deals, lines 173-175: the body is not a list
BulkNotList(w) ==
    /\ pc[w] = "idle"
    /\ pc'   = [pc EXCEPT ![w] = "done"]
    /\ pre'  = [pre EXCEPT ![w] = deals]
    /\ resp' = [resp EXCEPT ![w] = [NoResp EXCEPT !.op = "bulk", !.status = 400]]
    /\ UNCHANGED <<deals, now, ticks, batch, idx, added, sess, live,
                   lastUpd, rolled, runvars, normvars, storevars, fetchvars>>

\* one pass of the for-loop, lines 193-229
BulkItem(w) ==
    /\ pc[w] = "loop"
    /\ idx[w] <= Len(batch[w])
    /\ LET incoming == Samples[batch[w][idx[w]]]
           dd       == SampleData[batch[w][idx[w]]]
           flushed  == Flush(sess[w], NextId(w), now)
       IN  IF ~IsDict(incoming)
           THEN \* incoming.items() raises: except, rollback, continue
                /\ sess'    = [sess EXCEPT ![w] = Rollback(sess[w])]
                /\ rolled'  = [rolled EXCEPT ![w] = TRUE]
                /\ live'    = [live EXCEPT ![w] = {}]
                /\ lastUpd' = [lastUpd EXCEPT ![w] = {}]
                /\ UNCHANGED added
           ELSE IF ~FlushOk(sess[w])
           THEN \* the query's autoflush raises: except, rollback, continue
                /\ sess'    = [sess EXCEPT ![w] = Rollback(sess[w])]
                /\ rolled'  = [rolled EXCEPT ![w] = TRUE]
                /\ live'    = [live EXCEPT ![w] = {}]
                /\ lastUpd' = [lastUpd EXCEPT ![w] = {}]
                /\ UNCHANGED added
           ELSE /\ added'  = [added EXCEPT ![w] = @ + 1]
                /\ live'   = [live EXCEPT ![w] = @ \cup {idx[w]}]
                /\ UNCHANGED rolled
                /\ IF FindExisting(deals, flushed, dd) # {}
                   THEN \E existing \in FindExisting(deals, flushed, dd) :
                          LET after == ApplyUpdate(existing, dd, now)
                          IN  /\ sess' = [sess EXCEPT ![w] =
                                            WithUpdate(flushed, existing, after)]
                              /\ lastUpd' = [lastUpd EXCEPT ![w] =
                                               {[before |-> existing,
                                                 after  |-> after,
                                                 sample |-> batch[w][idx[w]]]}]
                   ELSE /\ sess' = [sess EXCEPT ![w] =
                                      [flushed EXCEPT !.new = <<dd>>]]
                        /\ lastUpd' = [lastUpd EXCEPT ![w] = {}]
    /\ idx' = [idx EXCEPT ![w] = @ + 1]
    /\ UNCHANGED <<deals, now, ticks, pc, batch, resp, pre, runvars, normvars, storevars, fetchvars>>

\* db.session.commit() and the response, lines 231-232.  A commit that raises
\* leaves the handler with an exception: the answer is 500 and the session is
\* discarded with its transaction.
BulkCommit(w) ==
    /\ pc[w] = "loop"
    /\ idx[w] > Len(batch[w])
    /\ LET flushed == Flush(sess[w], NextId(w), now)
       IN  /\ IF FlushOk(sess[w]) /\ ~Stale(deals, flushed)
              THEN /\ deals' = Committed(deals, flushed)
                   /\ resp'  = [resp EXCEPT ![w] =
                                  [NoResp EXCEPT !.op = "bulk",
                                                 !.status = 200,
                                                 !.processed = Len(batch[w]),
                                                 !.added = added[w]]]
                   /\ UNCHANGED live
              ELSE /\ deals' = deals
                   /\ resp'  = [resp EXCEPT ![w] = [NoResp EXCEPT !.op = "bulk",
                                                 !.status = 500]]
                   /\ live'  = [live EXCEPT ![w] = {}]
    /\ sess' = [sess EXCEPT ![w] = NoSess]
    /\ pc'   = [pc EXCEPT ![w] = "done"]
    /\ UNCHANGED <<now, ticks, batch, idx, added, pre, lastUpd, rolled, runvars, normvars, storevars, fetchvars>>

\* cleanup_old_deals, lines 235-240
\* (mutant) the age is counted from the last update
Expired_ByUpdate(r, t) == r["updated_at"] < t - RETENTION_DAYS
\* (mutant) a row of exactly RETENTION_DAYS is swept as well
Expired_AtWindow(r, t) == r["created_at"] <= t - RETENTION_DAYS

Expired(r, t) == r["created_at"] < t - RETENTION_DAYS
Cleanup(w) ==
    /\ pc[w] = "idle"
    /\ deals' = {r \in deals : ~Expired(r, now)}
    /\ pre'   = [pre EXCEPT ![w] = deals]
    /\ resp'  = [resp EXCEPT ![w] =
                   [NoResp EXCEPT !.op = "cleanup", !.status = 200,
                                  !.deleted = Cardinality({r \in deals :
                                                             Expired(r, now)})]]
    /\ pc'    = [pc EXCEPT ![w] = "done"]
    /\ UNCHANGED <<now, ticks, batch, idx, added, sess, live, lastUpd,
                   rolled, runvars, normvars, storevars, fetchvars>>

\* delete_sample_deals, lines 243-267: per sample name the first matching
\* Walmart row, if any
IsSample(r) == r["store_name"] = "Walmart" /\ r["product_name"] \in sample_names
DeleteSample(w) ==
    /\ pc[w] = "idle"
    /\ \E gone \in SUBSET {r \in deals : IsSample(r)} :
         /\ \A n \in sample_names :
              Cardinality({r \in gone : r["product_name"] = n}) =
                 IF \E r \in deals : IsSample(r) /\ r["product_name"] = n
                 THEN 1 ELSE 0
         /\ deals' = deals \ gone
         /\ resp'  = [resp EXCEPT ![w] =
                        [NoResp EXCEPT !.op = "delete_sample",
                                       !.status = 200,
                                       !.deleted = Cardinality(gone)]]
    /\ pre' = [pre EXCEPT ![w] = deals]
    /\ pc'  = [pc EXCEPT ![w] = "done"]
    /\ UNCHANGED <<now, ticks, batch, idx, added, sess, live, lastUpd,
                   rolled, runvars, normvars, storevars, fetchvars>>

---------------------------------------------------------------------------
(* The read endpoints: src/app.py, lines 117-169 *)

\* column.ilike('%pat%'): a case-insensitive substring match; NULL matches
\* nothing
UpperAlpha == "ABCDEFGHIJKLMNOPQRSTUVWXYZ"
LowerAlpha == "abcdefghijklmnopqrstuvwxyz"
LowerChar(c) ==
    IF \E i \in 1..Len(UpperAlpha) : SubSeq(UpperAlpha, i, i) = c
    THEN LET i == CHOOSE j \in 1..Len(UpperAlpha) : SubSeq(UpperAlpha, j, j) = c
         IN  SubSeq(LowerAlpha, i, i)
    ELSE c
RECURSIVE Lower(_)
Lower(t) == IF t = "" THEN ""
            ELSE LowerChar(SubSeq(t, 1, 1)) \o Lower(SubSeq(t, 2, Len(t)))
Contains(t, pat) ==
    \E i \in 0..(Len(t) - Len(pat)) : SubSeq(t, i + 1, i + Len(pat)) = pat
\* the texts a text column can hold and the patterns the requests carry
TextValues == UNION {{SampleData[x][k] : k \in (DOMAIN SampleData[x]) \cap TextCols}
                        : x \in DOMAIN SampleData} \ {None}
Patterns   == {"walmart", "aldi", "FROZEN", "milk", "frozen"}
ILikeTable == [v \in TextValues |->
                 {pat \in Patterns : Contains(Lower(v), Lower(pat))}]
ILike(v, pat) == v # None /\ pat \in ILikeTable[v]

\* (mutant) a deal whose valid_until is the query time still counts as active
IsActive_AtOrAfter(r, t) == r["valid_until"] = NoTime \/ r["valid_until"] >= t

\* (Deal.valid_until.is_(None)) | (Deal.valid_until > datetime.utcnow())
IsActive(r, t) == r["valid_until"] = NoTime \/ r["valid_until"] > t

\* Deal.to_dict
to_dict(r) ==
    [c \in DealCols \ {"created_at", "updated_at"} |->
        IF c \in DateCols
        THEN (IF r[c] = NoTime THEN None ELSE IsoFormat(r[c]))
        ELSE r[c]]

\* order_by(Deal.created_at.desc()): the orders the database may return the
\* rows in (rows with equal created_at come in any order)
OrderedDesc(rows) ==
    {q \in [1..Cardinality(rows) -> rows] :
        /\ \A i \in DOMAIN q : \A j \in DOMAIN q : i < j =>
              /\ q[i] # q[j]
              /\ q[i]["created_at"] >= q[j]["created_at"]}

DEFAULT_LIMIT == 100
MAX_LIMIT     == 500
SEARCH_LIMIT  == 100
Min(a, b) == IF a < b THEN a ELSE b

\* the query strings of GET /api/deals: an absent (or empty) argument is None
GetDealsArgs ==
    {[store |-> a[1], category |-> a[2], search |-> a[3], limit |-> a[4]] :
        a \in {<<None, None, None, DEFAULT_LIMIT>>,
                <<"walmart", None, None, DEFAULT_LIMIT>>,
                <<None, "FROZEN", None, DEFAULT_LIMIT>>,
                <<None, None, "milk", DEFAULT_LIMIT>>,
                <<"walmart", "FROZEN", None, DEFAULT_LIMIT>>,
                <<None, None, None, 1>>}}

\* the filters of get_deals other than the validity filter, lines 119-128
MatchesArgs(r, a) ==
    /\ a.store # None    => ILike(r["store_name"], a.store)
    /\ a.category # None => ILike(r["category"], a.category)
    /\ a.search # None   => ILike(r["product_name"], a.search)

\* the filter of search_deals other than the validity filter, lines 150-152
MatchesQuery(r, q) ==
    \/ ILike(r["product_name"], q)
    \/ ILike(r["category"], q)
    \/ ILike(r["description"], q)

\* the answer of a listing endpoint: the first `limit` rows of an ordering
ListResp(op, args, listed, limit) ==
    LET page == Take(listed, limit)
    IN  [op |-> op, status |-> 200, args |-> args,
         deals |-> [i \in 1..Len(page) |-> to_dict(page[i])],
         count |-> Len(page)]

\* (mutant) a read endpoint drops the rows that are no longer active
ReadFrame_Sweeping(w) ==
    /\ pc[w] = "idle"
    /\ pc'  = [pc EXCEPT ![w] = "done"]
    /\ pre' = [pre EXCEPT ![w] = deals]
    /\ deals' = {r \in deals : IsActive(r, now)}
    /\ UNCHANGED <<now, ticks, batch, idx, added, sess, live, lastUpd,
                   rolled, runvars, normvars, storevars, fetchvars>>

\* a read endpoint: a query, no write, no commit
ReadFrame(w) ==
    /\ pc[w] = "idle"
    /\ pc'  = [pc EXCEPT ![w] = "done"]
    /\ pre' = [pre EXCEPT ![w] = deals]
    /\ UNCHANGED <<deals, now, ticks, batch, idx, added, sess, live, lastUpd,
                   rolled, runvars, normvars, storevars, fetchvars>>

\* get_deals, lines 117-134
GetDeals(w) ==
    /\ ReadFrame(w)
    /\ \E a \in GetDealsArgs :
         \E listed \in OrderedDesc({r \in deals : MatchesArgs(r, a)
                                                  /\ IsActive(r, now)}) :
            resp' = [resp EXCEPT ![w] =
                       ListResp("get_deals", a, listed, Min(a.limit, MAX_LIMIT))]

\* get_deals_by_store, lines 136-142
GetDealsByStore(w) ==
    /\ ReadFrame(w)
    /\ \E store_name \in {"walmart", "aldi"} :
         \E listed \in OrderedDesc({r \in deals :
                                      /\ ILike(r["store_name"], store_name)
                                      /\ IsActive(r, now)}) :
            resp' = [resp EXCEPT ![w] =
                       ListResp("get_deals_by_store", store_name, listed,
                                Cardinality(deals))]

\* search_deals, lines 144-155
SearchDeals(w) ==
    /\ ReadFrame(w)
    /\ \E q \in {"", "milk", "frozen"} :
         IF q = ""
         THEN resp' = [resp EXCEPT ![w] =
                         [op |-> "search_deals", status |-> 400, args |-> q,
                          deals |-> <<>>, count |-> 0]]
         ELSE \E listed \in OrderedDesc({r \in deals : MatchesQuery(r, q)
                                                       /\ IsActive(r, now)}) :
                 resp' = [resp EXCEPT ![w] =
                            ListResp("search_deals", q, listed, SEARCH_LIMIT)]

\* get_stats, lines 157-169 (the count of stores is left out)
GetStats(w) ==
    /\ ReadFrame(w)
    /\ resp' = [resp EXCEPT ![w] =
                  [op |-> "get_stats", status |-> 200,
                   total_deals  |-> Cardinality(deals),
                   active_deals |-> Cardinality({r \in deals :
                                                   IsActive(r, now)})]]

\* health_check, lines 108-110
Health(w) ==
    /\ ReadFrame(w)
    /\ resp' = [resp EXCEPT ![w] =
                  [op |-> "health", status |-> 200,
                   timestamp |-> IsoFormat(now)]]

\* get_stores, lines 112-115
GetStores(w) ==
    /\ ReadFrame(w)
    /\ resp' = [resp EXCEPT ![w] =
                  [op |-> "get_stores", status |-> 200,
                   stores |-> {r \in stores : r.is_active},
                   count  |-> Cardinality({r \in stores : r.is_active})]]

\* the response is sent; the worker takes the next request
Return(w) ==
    /\ pc[w] = "done"
    /\ pc'   = [pc EXCEPT ![w] = "idle"]
    /\ resp' = [resp EXCEPT ![w] = NoResp]
    /\ Reset(w)
    /\ UNCHANGED <<deals, now, ticks, runvars, normvars, storevars, fetchvars>>

\* time passes between requests (the clock counts days): the retention
\* window, or a day more than that
Tick ==
    /\ ticks < MaxTicks
    /\ \A w \in Workers : pc[w] = "idle"
    /\ \E d \in {RETENTION_DAYS, RETENTION_DAYS + 1} : now' = now + d
    /\ ticks' = ticks + 1
    /\ UNCHANGED <<deals, pc, batch, idx, added, sess, resp, pre, live,
                   lastUpd, rolled, runvars, normvars, storevars, fetchvars>>

---------------------------------------------------------------------------
(* The adapters at their boundary, and run_all_scrapers: src/run_scrapers.py *)

\* what the external source of an adapter does during one run
Failures    == {"conn_error", "timeout", "non200", "unparseable"}
NetOutcomes == {"ok", "none"} \cup Failures

MarcsOffer  == [ShortDescription |-> "Large Eggs", OfferDescription |-> None,
                ValueText |-> "Save $1.00", Category |-> "Dairy",
                ImageURL |-> None, AvailabilityLink |-> None,
                ActiveDate |-> IsoFormat(1), ExpirationDate |-> "Jan 31"]
GiantEagleNode == [name |-> "Ground Beef", price |-> "5.99",
                   comparedPrice |-> "7.29", discount |-> "Save $1.30",
                   category |-> "Meat", description |-> None,
                   image |-> None, sku |-> "00012345"]
DgRaw == [id |-> "991", name |-> "Laundry Detergent",
          description |-> "Buy one get one free", image_url |-> None,
          sale_story |-> "BOGO", price_text |-> "9.95", valid_from |-> None,
          valid_to |-> None, item_web_url |-> None]

\* the cap of run_dollar_general_scraper and run_marcs_scraper
ADAPTER_CAP == 50
\* what the source lists: one item ("ok"), more items than the cap ("many"),
\* or none
Listing(n, item) ==
    IF n = "ok" THEN <<item>>
    ELSE IF n = "many" THEN [k \in 1..(ADAPTER_CAP + 1) |-> item]
    ELSE <<>>
ListingOutcomes == {"ok", "many", "none"}

\* A call returns [raised |-> an exception left the callee, out |-> its value].
Raise     == [raised |-> TRUE,  out |-> <<>>]
Returned(v) == [raised |-> FALSE, out |-> v]

\* WalmartScraper.scrape_deals: session.post is outside every try; a blocked
\* status, a body that is not JSON and a body that does not parse give None
walmart_scrape_deals(n, t) ==
    IF n \in {"conn_error", "timeout"} THEN Raise
    ELSE Returned(Listing(n, walmart_normalize_product(WalmartProduct)))

\* GiantEagleScraper.scrape_deals: requests.post is outside every try
giant_eagle_scrape_deals(n, t) ==
    IF n \in {"conn_error", "timeout"} THEN Raise
    ELSE Returned(Listing(n, giant_eagle_deal(GiantEagleNode, "stow", t)))

\* AldiScraper.scrape_deals: the SKUs are captured; requests.get in
\* _hydrate_products_from_api is outside every try
aldi_scrape_deals(n, t) ==
    IF n \in {"conn_error", "timeout"} THEN Raise
    ELSE Returned(Listing(n, normalize_aldi_product(AldiProduct)))

\* scrape_dollar_general: _get_json raises its last exception once the
\* attempts are used up and nothing above it catches
scrape_dollar_general(n, t) ==
    IF n \in Failures THEN Raise
    ELSE LET offers == Listing(n, normalize_offer(DgRaw))
         IN  Returned([retailer |-> "dollar_general", weekly_ad |-> offers,
                      count |-> Len(offers)])

\* MarcsScraper.scrape_deals: _fetch_offers catches everything
marcs_scrape_deals(n, t) ==
    Returned([k \in 1..Len(Listing(n, MarcsOffer)) |->
                marcs_deal(MarcsOffer, k, t)])

\* try: ... return _normalize_deals(...)  except Exception: return []
TryNormalize(scraped, deals_in, default_store, fallback_name_prefix) ==
    IF scraped.raised
       \/ NormalizeRaises(deals_in, default_store, fallback_name_prefix)
    THEN Returned(<<>>)
    ELSE Returned(normalize_deals(deals_in, default_store, fallback_name_prefix))

\* (mutant) run_walmart_scraper without its try/except
run_walmart_scraper_NoTry(n, t) ==
    LET r == walmart_scrape_deals(n, t)
    IN  IF r.raised THEN Raise
        ELSE Returned(normalize_deals(r.out, "Walmart", "Walmart item"))

run_walmart_scraper(n, t) ==
    LET r == walmart_scrape_deals(n, t)
    IN  TryNormalize(r, r.out, "Walmart", "Walmart item")

\* for d in raw_deals: d["store_name"] = "Giant Eagle"
run_giant_eagle_scraper(n, t) ==
    LET r == giant_eagle_scrape_deals(n, t)
        forced == [i \in 1..Len(r.out) |->
                     [r.out[i] EXCEPT !["store_name"] = "Giant Eagle"]]
    IN  TryNormalize(r, forced, "Giant Eagle", "Giant Eagle item")

run_aldi_scraper(n, t) ==
    LET r == aldi_scrape_deals(n, t)
    IN  TryNormalize(r, r.out, "ALDI", "Aldi item")

\* the dict has "weekly_ad"; deals = deals[:50]
run_dollar_general_scraper(n, t) ==
    LET r == scrape_dollar_general(n, t)
        deals_in == IF r.raised THEN <<>> ELSE Take(r.out.weekly_ad, 50)
    IN  TryNormalize(r, deals_in, "Dollar General", "Dollar General deal")

\* raw_deals = raw_deals[:50]
run_marcs_scraper(n, t) ==
    LET r == marcs_scrape_deals(n, t)
    IN  TryNormalize(r, Take(r.out, 50), "Marc's", "Marc's offer")

NAdapters == 5
\* the i-th adapter of run_all_scrapers, at its own boundary
ScrapeAt(i, n, t) ==
    CASE i = 1 -> walmart_scrape_deals(n, t)
      [] i = 2 -> giant_eagle_scrape_deals(n, t)
      [] i = 3 -> aldi_scrape_deals(n, t)
      [] i = 4 -> LET r == scrape_dollar_general(n, t)
                  IN  IF r.raised THEN r ELSE Returned(r.out.weekly_ad)
      [] i = 5 -> marcs_scrape_deals(n, t)
Boundary(r) == IF r.raised THEN "raised"
               ELSE IF r.out = <<>> THEN "empty" ELSE "deals"
\* the i-th all_deals.extend(run_..._scraper())
RunScraper(i, n, t) ==
    CASE i = 1 -> run_walmart_scraper(n, t)
      [] i = 2 -> run_giant_eagle_scraper(n, t)
      [] i = 3 -> run_aldi_scraper(n, t)
      [] i = 4 -> run_dollar_general_scraper(n, t)
      [] i = 5 -> run_marcs_scraper(n, t)

DEFAULT_API_URL == "https://web-production-b311.up.railway.app"
LOCAL_URL       == "http://127.0.0.1:5000"
ApiUrls == {DEFAULT_API_URL, LOCAL_URL, "http://127.0.0.1:8080"}
StartsWith(t, p) == Len(t) >= Len(p) /\ SubSeq(t, 1, Len(p)) = p
\* upload_deals: urls_to_try
UrlsToTry(url) == IF StartsWith(url, "http://127.0.0.1") THEN <<url>>
                  ELSE <<url, LOCAL_URL>>
\* what a target does with the POST: HTTP 200 with a JSON body, HTTP 200 with
\* a body resp.json() cannot read, another status, an exception before the
\* target handled the request, no answer within timeout=30 from a target that
\* handles the request
Answers == {"200", "200_not_json", "other", "exception", "timeout"}
\* the posts upload_deals makes given each target's answer: it stops at the
\* first 200
RECURSIVE PostsFrom(_, _, _)
PostsFrom(urls, ans, i) ==
    IF i > Len(urls) THEN <<>>
    ELSE <<[url |-> urls[i], answer |-> ans[i]]>>
         \o (IF ans[i] = "200" THEN <<>> ELSE PostsFrom(urls, ans, i + 1))

\* (mutant) upload_deals reports success whatever the targets answered
upload_deals_AlwaysTrue(made) == TRUE

\* what upload_deals returns after the posts `made`: True at the first target
\* that answers 200 with a readable body, False when every target failed
upload_deals(made) == \E i \in 1..Len(made) : made[i].answer = "200"

\* the statuses run_all_scrapers returns
SUCCESS_STATUS       == 0    \* return 0
NO_DEALS_STATUS      == 1    \* if not all_deals: return 1
UPLOAD_FAILED_STATUS == 1    \* upload_deals returned False: return 1

\* run_all_scrapers is called (by the scheduler, the trigger or the CLI)
RunStart ==
    /\ rstep = 0
    /\ api_url' \in ApiUrls
    /\ rstep' = 1
    /\ UNCHANGED <<dbvars, normvars, storevars, fetchvars, net, result, produced, all_deals, posted, posts,
                   upload_ok, rc>>

\* lines 244-257: the next all_deals.extend(run_..._scraper()).  The function
\* has no try of its own: an exception leaving a wrapper would end the run.
RunAdapterFrom(outcomes) ==
    /\ rstep \in 1..NAdapters
    /\ \E n \in outcomes :
         LET r == RunScraper(rstep, n, now)
         IN  /\ net'      = Append(net, n)
             /\ result'   = Append(result, Boundary(ScrapeAt(rstep, n, now)))
             /\ produced' = Append(produced, r.out)
             /\ all_deals' = all_deals \o r.out
             /\ rstep' = IF r.raised THEN 7 ELSE rstep + 1
             /\ rc'    = IF r.raised THEN 2 ELSE rc
    /\ UNCHANGED <<dbvars, normvars, storevars, fetchvars, api_url, posted, posts, upload_ok>>

RunAdapter == RunAdapterFrom(NetOutcomes)
\* the same step when the source answers and may list more than the cap
RunListing == RunAdapterFrom(ListingOutcomes)

\* lines 263-265: if not all_deals: return 1
NoDeals ==
    /\ rstep = 6
    /\ all_deals = <<>>
    /\ rc' = NO_DEALS_STATUS
    /\ rstep' = 7
    /\ UNCHANGED <<dbvars, normvars, storevars, fetchvars, net, result, produced, all_deals, api_url, posted,
                   posts, upload_ok>>

\* lines 267-274 with upload_deals, lines 25-58
Upload ==
    /\ rstep = 6
    /\ all_deals # <<>>
    /\ posted' = all_deals
    /\ \E ans \in [1..Len(UrlsToTry(api_url)) -> Answers] :
         LET made == PostsFrom(UrlsToTry(api_url), ans, 1)
             ok   == upload_deals(made)
         IN  /\ posts' = made
             /\ upload_ok' = ok
             /\ rc' = IF ok THEN SUCCESS_STATUS ELSE UPLOAD_FAILED_STATUS
    /\ rstep' = 7
    /\ UNCHANGED <<dbvars, normvars, storevars, fetchvars, net, result, produced, all_deals, api_url>>

---------------------------------------------------------------------------
(* _normalize_deals called on its own: src/run_scrapers.py, lines 64-106 *)

\* repeat(t, n): n copies of t
RECURSIVE Repeat(_, _)
Repeat(t, n) == IF n = 0 THEN "" ELSE t \o Repeat(t, n - 1)
\* a text of n characters; no two of its windows of equal length that start
\* at offsets differing by less than 7 are equal
TextOfLen(n) == SubSeq(Repeat("abcdefg", (n \div 7) + 1), 1, n)
LongName  == TextOfLen(PRODUCT_NAME_MAX + 100)
EdgeName  == TextOfLen(PRODUCT_NAME_MAX)
OverName  == TextOfLen(PRODUCT_NAME_MAX + 1)

\* The candidates of the lists handed to _normalize_deals:
\*   1  a record with both names and fields outside the schema
\*   2  the Dollar General offer: no product_name, a description and a title
\*   3  a title and a "store" field only
\*   4  a name only
\*   5  an empty mapping
\*   6  an element that is not a mapping
\*   7  empty texts for store_name, product_name and description
\*   8, 9, 10  a product_name of 600, 500 and 501 characters
\*   11 a product_name that is a number
\*   12 a description only
Candidates ==
    << [store_name |-> "Walmart", product_name |-> SampleName,
        price |-> "$5.99", rating |-> "4.5", reviews |-> "120"],
       normalize_offer([id |-> "991", name |-> "Laundry Detergent",
                        description |-> "Buy one get one free",
                        image_url |-> None, sale_story |-> "BOGO",
                        price_text |-> "9.95", valid_from |-> None,
                        valid_to |-> None, item_web_url |-> None]),
       [store |-> "Corner Shop", title |-> "Paper Towels"],
       [name |-> "Dish Soap", description |-> None],
       [x \in {} |-> None],
       NonDict,
       [store_name |-> "", product_name |-> "", description |-> ""],
       [store_name |-> "Walmart", product_name |-> LongName],
       [store_name |-> "Walmart", product_name |-> EdgeName],
       [store_name |-> "Walmart", product_name |-> OverName],
       [store_name |-> "Walmart", product_name |-> NonText],
       [description |-> "Buy one get one free"] >>
CandLists     == UNION {[1..n -> DOMAIN Candidates] : n \in 0..MaxCands}
DefaultStores == {None, "Walmart"}
NamePrefixes  == {"Deal", "Dollar General deal"}
NoCall        == [op |-> "none"]

\* a caller hands a list to _normalize_deals
NormCall ==
    /\ ncall = NoCall
    /\ nret = NoCall
    /\ \E l \in CandLists, ds \in DefaultStores, pre_ \in NamePrefixes :
         ncall' = [op |-> "normalize", deals |-> l, default_store |-> ds,
                   fallback_name_prefix |-> pre_]
    /\ UNCHANGED <<dbvars, runvars, storevars, fetchvars, nret, trip>>

\* the call returns its list, or an exception leaves it
NormReturn ==
    /\ ncall # NoCall
    /\ LET deals_in == [i \in 1..Len(ncall.deals) |-> Candidates[ncall.deals[i]]]
       IN  nret' = IF NormalizeRaises(deals_in, ncall.default_store,
                                     ncall.fallback_name_prefix)
                   THEN [op |-> "raised", of |-> ncall]
                   ELSE [op |-> "returned", of |-> ncall,
                         out |-> normalize_deals(deals_in, ncall.default_store,
                                                 ncall.fallback_name_prefix)]
    /\ ncall' = NoCall
    /\ UNCHANGED <<dbvars, runvars, storevars, fetchvars, trip>>

\* the caller has taken what the call gave it
NormTaken ==
    /\ nret # NoCall
    /\ nret' = NoCall
    /\ UNCHANGED <<dbvars, runvars, storevars, fetchvars, ncall, trip>>

---------------------------------------------------------------------------
(* One product name from its source to the table `deals` *)

\* where the name enters: the listing of one of four adapters (its name
\* field), the Dollar General offer (its description), or a body posted to
\* the bulk endpoint
Entries  == {"walmart", "giant_eagle", "aldi", "marcs", "dollar_general",
             "bulk"}
\* DATABASE_URL: SQLite stores a text longer than String(500); PostgreSQL
\* raises on it
Dialects == {"sqlite", "postgresql"}
NameLengths == {150, 200, 201, PRODUCT_NAME_MAX, PRODUCT_NAME_MAX + 1,
                PRODUCT_NAME_MAX + 100}
NoTrip == [stage |-> "none"]

\* the record the adapter of `entry` builds for a source name
AdapterRecord(entry, raw) ==
    CASE entry = "walmart" ->
           walmart_normalize_product([WalmartProduct EXCEPT !.name = raw])
      [] entry = "giant_eagle" ->
           giant_eagle_deal([GiantEagleNode EXCEPT !.name = raw], "stow", 0)
      [] entry = "aldi" ->
           normalize_aldi_product([AldiProduct EXCEPT !.name = raw])
      [] entry = "marcs" ->
           marcs_deal([MarcsOffer EXCEPT !.ShortDescription = raw], 1, 0)
      [] entry = "dollar_general" ->
           normalize_offer([DgRaw EXCEPT !.description = raw])
\* the arguments run_<entry>_scraper gives _normalize_deals
EntryStore(entry) ==
    CASE entry = "walmart" -> "Walmart" [] entry = "giant_eagle" -> "Giant Eagle"
      [] entry = "aldi" -> "ALDI" [] entry = "marcs" -> "Marc's"
      [] entry = "dollar_general" -> "Dollar General"
EntryPrefix(entry) ==
    CASE entry = "walmart" -> "Walmart item"
      [] entry = "giant_eagle" -> "Giant Eagle item"
      [] entry = "aldi" -> "Aldi item" [] entry = "marcs" -> "Marc's offer"
      [] entry = "dollar_general" -> "Dollar General deal"

\* the INSERT of a row: PostgreSQL rejects a product_name wider than the
\* column, SQLite does not look at the width
WidthOk(dd, dialect) ==
    dialect = "sqlite" \/ Len(Col(dd, "product_name")) <= PRODUCT_NAME_MAX

\* a name appears at a source, or in a body posted to the bulk endpoint
NameEnter ==
    /\ trip = NoTrip
    /\ \E e \in Entries, dia \in Dialects, n \in NameLengths :
         trip' = [stage |-> IF e = "bulk" THEN "posted" ELSE "source",
                  entry |-> e, dialect |-> dia, raw |-> TextOfLen(n),
                  record |-> IF e = "bulk"
                             THEN [store_name |-> "Walmart",
                                   product_name |-> TextOfLen(n)]
                             ELSE [x \in {} |-> None]]
    /\ UNCHANGED <<dbvars, runvars, storevars, fetchvars, ncall, nret>>

\* the adapter builds its record
NameAdapt ==
    /\ trip.stage = "source"
    /\ trip' = [trip EXCEPT !.stage = "scraped",
                            !.record = AdapterRecord(trip.entry, trip.raw)]
    /\ UNCHANGED <<dbvars, runvars, storevars, fetchvars, ncall, nret>>

\* run_<entry>_scraper normalizes it and upload_deals posts it
NameNormalize ==
    /\ trip.stage = "scraped"
    /\ trip' = [trip EXCEPT !.stage = "posted",
                            !.record = normalize_deals(<<trip.record>>,
                                          EntryStore(trip.entry),
                                          EntryPrefix(trip.entry))[1]]
    /\ UNCHANGED <<dbvars, runvars, storevars, fetchvars, ncall, nret>>

\* bulk_add_deals inserts it into the empty table and commits
NameStore ==
    /\ trip.stage = "posted"
    /\ LET dd == DealData(trip.record)
       IN  trip' = IF WidthOk(dd, trip.dialect)
                   THEN [trip EXCEPT !.stage = "stored",
                                     !.record = NewRow(dd, 1, 0)]
                   ELSE [trip EXCEPT !.stage = "rejected"]
    /\ UNCHANGED <<dbvars, runvars, storevars, fetchvars, ncall, nret>>

\* the next name
NameDone ==
    /\ trip.stage \in {"stored", "rejected"}
    /\ trip' = NoTrip
    /\ UNCHANGED <<dbvars, runvars, storevars, fetchvars, ncall, nret>>

---------------------------------------------------------------------------
(* Table `stores` and its seeding at import: src/app.py, lines 61-105 *)

\* Store(**s) inserted with primary key i: the columns the seed does not
\* name are NULL, is_active takes its default
NewStore(s, i) ==
    [id |-> i, name |-> s.name, display_name |-> s.display_name,
     website |-> s.website, logo_url |-> None, last_scraped |-> NoTime,
     is_active |-> TRUE]

seeds ==
    << [name |-> "walmart", display_name |-> "Walmart",
        website |-> "https://www.walmart.com"],
       [name |-> "target", display_name |-> "Target",
        website |-> "https://www.target.com"],
       [name |-> "kroger", display_name |-> "Kroger",
        website |-> "https://www.kroger.com"] >>
SeedNames == {seeds[i].name : i \in 1..Len(seeds)}

\* the table after the import of app.py into an empty database
SeededStores == {NewStore(seeds[i], i) : i \in 1..Len(seeds)}

\* the processes that import app.py (the server's workers)
Importers == {1, 2}
SeedIdle  == [pc |-> "idle", i |-> 1, new |-> <<>>, ins |-> {}]

\* the tables an import can find: none yet, one where an operator changed
\* the walmart row, a seeded one with a further store
StoreTables ==
    { {},
      {[id |-> 4, name |-> "walmart", display_name |-> "Wal-Mart",
        website |-> None, logo_url |-> "logo.png", last_scraped |-> 5,
        is_active |-> FALSE]},
      SeededStores \cup
        {[id |-> 4, name |-> "aldi", display_name |-> "ALDI",
          website |-> None, logo_url |-> None, last_scraped |-> NoTime,
          is_active |-> TRUE]} }
DealTables == { {}, {NewRow(SampleData[3], 1, 0)} }

NextStoreId ==
    LET used == {r.id : r \in stores}
                \cup UNION {{r.id : r \in seed[q].ins} : q \in Importers}
    IN  IF used = {} THEN 1
        ELSE 1 + CHOOSE m \in used : \A x \in used : x <= m

\* the INSERT of the pending Store objects (autoflush before the select, or
\* the flush of commit).  unique=True on name: the statement raises when a
\* committed row has the name, and waits while another open transaction has
\* inserted the name.
\* (mutant) name carries no unique constraint
SeedConflict_NoUnique(p) == FALSE

SeedConflict(p) ==
    \E j \in 1..Len(seed[p].new) :
        \E r \in stores : r.name = seed[p].new[j].name
SeedBlocked(p) ==
    \E j \in 1..Len(seed[p].new) : \E q \in Importers \ {p} :
        \E r \in seed[q].ins : r.name = seed[p].new[j].name
SeedFlushed(p) ==
    seed[p].ins \cup {NewStore(seed[p].new[j], NextStoreId + j - 1) :
                         j \in 1..Len(seed[p].new)}

\* _init_db_once is entered; db.create_all() changes no row
SeedBegin(p) ==
    /\ seed[p].pc = "idle"
    /\ seed' = [seed EXCEPT ![p] = [SeedIdle EXCEPT !.pc = "loop"]]
    /\ UNCHANGED <<dbvars, runvars, normvars, fetchvars, stores>>

\* except Exception: db.session.rollback()
SeedRaise(p) ==
    /\ seed' = [seed EXCEPT ![p] = [SeedIdle EXCEPT !.pc = "done"]]
    /\ UNCHANGED <<dbvars, runvars, normvars, fetchvars, stores>>

\* one pass of `for s in seeds`, lines 93-98
SeedItem(p) ==
    /\ seed[p].pc = "loop"
    /\ seed[p].i <= Len(seeds)
    /\ IF SeedConflict(p)
       THEN SeedRaise(p)
       ELSE IF SeedBlocked(p)
       THEN \* the statement waits for the lock until its timeout raises
            SeedRaise(p)
       ELSE LET s      == seeds[seed[p].i]
                ins    == SeedFlushed(p)
                exists == \E r \in stores \cup ins : r.name = s.name
            IN  /\ seed' = [seed EXCEPT ![p] =
                              [pc  |-> "loop", i |-> seed[p].i + 1,
                               new |-> IF exists THEN <<>> ELSE <<s>>,
                               ins |-> ins]]
                /\ UNCHANGED <<dbvars, runvars, normvars, fetchvars, stores>>

\* db.session.commit(), line 99
SeedCommit(p) ==
    /\ seed[p].pc = "loop"
    /\ seed[p].i > Len(seeds)
    /\ IF SeedConflict(p)
       THEN SeedRaise(p)
       ELSE IF SeedBlocked(p)
       THEN SeedRaise(p)
       ELSE /\ stores' = stores \cup SeedFlushed(p)
            /\ seed'   = [seed EXCEPT ![p] = [SeedIdle EXCEPT !.pc = "done"]]
            /\ UNCHANGED <<dbvars, runvars, normvars, fetchvars>>

\* the process is restarted and imports app.py again
SeedAgain(p) ==
    /\ seed[p].pc = "done"
    /\ seed' = [seed EXCEPT ![p] = SeedIdle]
    /\ UNCHANGED <<dbvars, runvars, normvars, fetchvars, stores>>

---------------------------------------------------------------------------
InitDb ==
    /\ deals = {}
    /\ now = 0
    /\ ticks = 0
    /\ pc = [w \in Workers |-> "idle"]
    /\ batch = [w \in Workers |-> <<>>]
    /\ idx = [w \in Workers |-> 1]
    /\ added = [w \in Workers |-> 0]
    /\ sess = [w \in Workers |-> NoSess]
    /\ resp = [w \in Workers |-> NoResp]
    /\ pre = [w \in Workers |-> {}]
    /\ live = [w \in Workers |-> {}]
    /\ lastUpd = [w \in Workers |-> {}]
    /\ rolled = [w \in Workers |-> FALSE]

InitRun ==
    /\ rstep = 0
    /\ net = <<>>
    /\ result = <<>>
    /\ produced = <<>>
    /\ all_deals = <<>>
    /\ api_url = ""
    /\ posted = <<>>
    /\ posts = <<>>
    /\ upload_ok = FALSE
    /\ rc = -1

InitNorm ==
    /\ ncall = NoCall
    /\ nret = NoCall
    /\ trip = NoTrip

---------------------------------------------------------------------------
(* The Dollar General HTTP helper: src/scrapers/dollar_general_scraper.py,
   _get_json (lines 54-64) and fetch_publication_products (lines 75-94) *)

RETRIES == 3
\* what one requests.get of _get_json does: HTTP 200 with a JSON body; a
\* status for which resp.raise_for_status() raises requests.HTTPError; an
\* exception of requests.get itself; HTTP 200 with a body resp.json() cannot
\* read
GetOutcomes == {"ok", "502", "503", "504", "404", "422", "transport",
                "not_json"}
HTTPErrors == {"502", "503", "504", "404", "422"}
FetchIdle == [pc |-> "idle", call |-> 0, attempt |-> 0, locale |-> TRUE,
              sent |-> <<>>, out |-> "none", exc |-> "none"]

\* fetch_publication_products is called: params carries locale, and
\* _get_json starts its loop at attempt 1
FetchCall ==
    /\ fetch.pc = "idle"
    /\ fetch' = [FetchIdle EXCEPT !.pc = "get", !.call = 1, !.attempt = 1]
    /\ UNCHANGED <<dbvars, runvars, normvars, storevars>>

\* one pass of the for loop of _get_json, and what follows when the loop
\* ends: return resp.json() to fetch_publication_products, which returns; or
\* the except branch, then the next attempt; or, after attempt RETRIES,
\* raise last_exc, which fetch_publication_products answers with a second
\* call without locale when it is an HTTPError with status 422 raised by the
\* first call, and lets through otherwise
GetJson ==
    /\ fetch.pc = "get"
    /\ \E a \in GetOutcomes :
         LET sent == Append(fetch.sent, [answer |-> a, call |-> fetch.call,
                                         attempt |-> fetch.attempt,
                                         locale |-> fetch.locale])
         IN  fetch' =
               IF a = "ok"
               THEN [fetch EXCEPT !.sent = sent, !.pc = "done",
                                  !.out = "returned"]
               ELSE IF fetch.attempt < RETRIES
               THEN [fetch EXCEPT !.sent = sent, !.attempt = @ + 1]
               ELSE IF fetch.call = 1 /\ a \in HTTPErrors /\ a = "422"
               THEN [fetch EXCEPT !.sent = sent, !.call = 2, !.attempt = 1,
                                  !.locale = FALSE]
               ELSE [fetch EXCEPT !.sent = sent, !.pc = "done",
                                  !.out = "raised", !.exc = a]
    /\ UNCHANGED <<dbvars, runvars, normvars, storevars>>

\* app.py has been imported into an empty database
InitStore ==
    /\ stores = SeededStores
    /\ seed = [p \in Importers |-> SeedIdle]

\* fetch_publication_products has not been called
InitFetch == fetch = FetchIdle

Init == InitDb /\ InitRun /\ InitNorm /\ InitStore /\ InitFetch

\* app.py is about to be imported, into a database that may hold rows
InitSeed ==
    /\ stores \in StoreTables
    /\ seed = [p \in Importers |-> SeedIdle]
    /\ deals \in DealTables
    /\ InitFetch
    /\ now = 0
    /\ ticks = 0
    /\ pc = [w \in Workers |-> "idle"]
    /\ batch = [w \in Workers |-> <<>>]
    /\ idx = [w \in Workers |-> 1]
    /\ added = [w \in Workers |-> 0]
    /\ sess = [w \in Workers |-> NoSess]
    /\ resp = [w \in Workers |-> NoResp]
    /\ pre = [w \in Workers |-> {}]
    /\ live = [w \in Workers |-> {}]
    /\ lastUpd = [w \in Workers |-> {}]
    /\ rolled = [w \in Workers |-> FALSE]
    /\ InitRun
    /\ InitNorm

Request(w) ==
    \/ BulkBegin(w)
    \/ BulkNotList(w)
    \/ BulkItem(w)
    \/ BulkCommit(w)
    \/ Cleanup(w)
    \/ DeleteSample(w)
    \/ GetDeals(w)
    \/ GetDealsByStore(w)
    \/ SearchDeals(w)
    \/ GetStats(w)
    \/ Health(w)
    \/ GetStores(w)
    \/ Return(w)

\* one worker: requests are executed one at a time
Next == Tick \/ Request(1)
Spec == Init /\ [][Next]_vars

\* two workers, each serving the upload of one ingestion run (the scheduled
\* run and a triggered one): their requests interleave between statements
NextConc ==
    \E w \in Workers : RunBegin(w) \/ BulkItem(w) \/ BulkCommit(w)
SpecConc == Init /\ [][NextConc]_vars

\* calls of _normalize_deals, one after the other
NextNorm == NormCall \/ NormReturn \/ NormTaken
SpecNorm == Init /\ [][NextNorm]_vars

\* product names travelling from a source to the table, one at a time
NextName == NameEnter \/ NameAdapt \/ NameNormalize \/ NameStore \/ NameDone
SpecName == Init /\ [][NextName]_vars

\* the imports of app.py by the server's processes
NextSeed ==
    \E p \in Importers :
        SeedBegin(p) \/ SeedItem(p) \/ SeedCommit(p) \/ SeedAgain(p)
SpecSeed == InitSeed /\ [][NextSeed]_vars

\* one call of fetch_publication_products
NextFetch == FetchCall \/ GetJson
SpecFetch == Init /\ [][NextFetch]_vars

\* one run of run_all_scrapers whose sources all answer, with short and
\* with long listings
NextCap == RunStart \/ RunListing \/ NoDeals \/ Upload
SpecCap == Init /\ [][NextCap]_vars

\* one run of run_all_scrapers
NextRun == RunStart \/ RunAdapter \/ NoDeals \/ Upload
SpecRun == Init /\ [][NextRun]_vars


---------------------------------------------------------------------------
(* Properties of the bulk upsert *)

\* worker w has answered a bulk request and the answer is HTTP 200
BulkOk(w) == pc[w] = "done" /\ resp[w].op = "bulk" /\ resp[w].status = 200
RowsOf(s) == {r \in deals : KeyOf(r) = SampleKey(s)}
IsNull(r, c) == IF c \in TextCols THEN r[c] = None
                ELSE IF c \in DateCols THEN r[c] = NoTime
                ELSE FALSE

\* C1: a body made of N >= 1 copies of one record with a (store_name,
\* product_name) leaves exactly one row with that key, and every field the
\* record carries holds the submitted value (dates as parsed).
C1_Idempotent ==
    \A s \in SampleIds :
        (/\ BulkOk(1) /\ Valid(s)
         /\ Len(batch[1]) >= 1
         /\ \A i \in 1..Len(batch[1]) : batch[1][i] = s)
        => /\ Cardinality(RowsOf(s)) = 1
           /\ \A r \in RowsOf(s) : \A k \in DOMAIN SampleData[s] :
                 r[k] = SampleData[s][k]

\* C2: with one writer the table never holds two rows with the same
\* (store_name, product_name).
C2_UniqueKeys ==
    \A r1 \in deals : \A r2 \in deals : KeyOf(r1) = KeyOf(r2) => r1 = r2

\* a committed batch that held the same pair twice, into a table that had no
\* row of that pair
C2_Witness ==
    /\ BulkOk(1)
    /\ \A r \in pre[1] : KeyOf(r) # SampleKey(batch[1][1])
    /\ \E i \in 1..Len(batch[1]) : \E j \in 1..Len(batch[1]) :
         /\ i < j /\ Valid(batch[1][i]) /\ Valid(batch[1][j])
         /\ SampleKey(batch[1][i]) = SampleKey(batch[1][j])
         /\ RowsOf(batch[1][j]) # {}

\* C3: with two writers the committed table holds at most one row per
\* (store_name, product_name) in every interleaving.
C3_AtMostOneRowPerKey ==
    \A s \in FromPipeline : Cardinality(RowsOf(s)) <= 1

\* C4: after a batch commits, every valid record of it is in the store,
\* whatever other record of the batch raised.
C4_PerItemIsolation ==
    BulkOk(1) =>
        \A i \in 1..Len(batch[1]) :
            Valid(batch[1][i]) => RowsOf(batch[1][i]) # {}

\* C5: deals_processed is the length of the batch and deals_added is the
\* number of records whose write is part of the committed state.
C5_CountsAccurate ==
    BulkOk(1) =>
        /\ resp[1].processed = Len(batch[1])
        /\ resp[1].added = Cardinality(live[1])

\* C6: an update leaves every column whose key the record does not carry as
\* it was (updated_at, which no record can carry, is the refreshed timestamp).
C6_PartialUpdatePreserves ==
    \A u \in lastUpd[1] :
        LET rows == IF pc[1] = "done" THEN deals ELSE View(deals, sess[1])
        IN  (pc[1] = "loop" \/ BulkOk(1)) =>
              \E r \in rows :
                 /\ r["id"] = u.before["id"]
                 /\ \A c \in DealCols \ {"updated_at"} :
                       c \notin DOMAIN SampleData[u.sample]
                          => r[c] = u.before[c]

\* a committed update by a record without a category of a row that has one
C6_Witness ==
    /\ BulkOk(1)
    /\ \E u \in lastUpd[1] : \E r \in deals :
         /\ r["id"] = u.before["id"]
         /\ "category" \notin DOMAIN SampleData[u.sample]
         /\ u.before["category"] = "Frozen"
         /\ r["category"] = "Frozen"
         /\ r["price"] # u.before["price"]

\* C7: an update by a record of the ingestion pipeline leaves no column null
\* that was not null before.
C7_NoNulling ==
    \A u \in lastUpd[1] :
        u.sample \in FromPipeline =>
            \A c \in DealCols : ~IsNull(u.before, c) => ~IsNull(u.after, c)

\* C8: a bulk request that does not answer 200 leaves the table as it was,
\* and one that answers 200 has applied every valid record of the batch.
C8_NoPartialState ==
    (pc[1] = "done" /\ resp[1].op = "bulk") =>
        /\ resp[1].status # 200 => deals = pre[1]
        /\ resp[1].status = 200 =>
              \A i \in 1..Len(batch[1]) : Valid(batch[1][i]) => i \in live[1]


---------------------------------------------------------------------------
(* Properties of the orchestrator and of the adapters *)

DefaultStore == <<"Walmart", "Giant Eagle", "ALDI", "Dollar General", "Marc's">>
NamePrefix   == <<"Walmart item", "Giant Eagle item", "Aldi item",
                  "Dollar General deal", "Marc's offer">>
\* the normalized output of adapter i when it succeeded (of its first 50
\* records for Dollar General and Marc's), <<>> otherwise
ExpectedOf(i) ==
    IF result[i] # "deals" THEN <<>>
    ELSE LET got == ScrapeAt(i, net[i], now).out
             out == IF i \in {4, 5} THEN Take(got, 50) ELSE got
         IN  normalize_deals(
                [j \in 1..Len(out) |->
                    IF i = 2 THEN [out[j] EXCEPT !["store_name"] = "Giant Eagle"]
                    ELSE out[j]],
                DefaultStore[i], NamePrefix[i])

\* C9: whatever adapters raise or return nothing, all five are run, the batch
\* handed to upload_deals is the concatenation of the normalized outputs of
\* those that succeeded, and a non-empty batch whose upload succeeds gives
\* exit status 0.
C9_FailOpen ==
    rstep = 7 =>
        /\ Len(net) = NAdapters
        /\ all_deals = ExpectedOf(1) \o ExpectedOf(2) \o ExpectedOf(3)
                          \o ExpectedOf(4) \o ExpectedOf(5)
        /\ all_deals # <<>> => posted = all_deals
        /\ (all_deals # <<>> /\ upload_ok) => rc = 0

\* a run with an adapter that raised, one that found nothing and one that
\* succeeded, whose upload succeeded
C9_Witness ==
    /\ rstep = 7 /\ rc = 0 /\ upload_ok
    /\ \E i \in 1..Len(result) : result[i] = "raised"
    /\ \E i \in 1..Len(result) : result[i] = "empty"
    /\ \E i \in 1..Len(result) : result[i] = "deals"
    /\ Len(posted) >= 1

\* C10: at the boundary of every adapter a failure of the external source
\* gives an empty result, never an exception.
C10_AdaptersFailOpen ==
    \A i \in 1..Len(net) : net[i] \in Failures => result[i] = "empty"

\* C11: a run never ends with an exception; a run whose adapters produced no
\* record returns the no-deals status, and a run whose non-empty batch could
\* not be uploaded returns a status different from it.
C11_SoftDistinctFromHard ==
    rstep = 7 =>
        /\ rc # 2
        /\ all_deals = <<>> => rc = NO_DEALS_STATUS
        /\ (all_deals # <<>> /\ ~upload_ok) => rc # NO_DEALS_STATUS

---------------------------------------------------------------------------
(* Properties of the read endpoints *)

ListOps == {"get_deals", "get_deals_by_store", "search_deals"}
\* the rows whose representation a listing response carries
Listed(w) == {r \in deals : \E i \in 1..Len(resp[w].deals) :
                               resp[w].deals[i]["id"] = r["id"]}
\* the rows the request of worker w selects, the validity filter aside
Selected(w) ==
    {r \in deals :
        CASE resp[w].op = "get_deals" -> MatchesArgs(r, resp[w].args)
          [] resp[w].op = "get_deals_by_store" ->
                ILike(r["store_name"], resp[w].args)
          [] resp[w].op = "search_deals" -> MatchesQuery(r, resp[w].args)}

\* C13: a listing carries only deals whose valid_until is absent or later
\* than the query time, a deal the request selects whose valid_until is
\* absent is carried unless the page is full, and active_deals counts exactly
\* the deals whose valid_until is absent or later than the query time.
C13_ActiveFilter ==
    pc[1] = "done" =>
        /\ (resp[1].op \in ListOps /\ resp[1].status = 200) =>
              /\ Len(resp[1].deals) = Cardinality(Listed(1))
              /\ \A r \in Listed(1) :
                    r["valid_until"] = NoTime \/ r["valid_until"] > now
              /\ \A r \in Selected(1) :
                    (r["valid_until"] = NoTime /\ r \notin Listed(1))
                       => (resp[1].op = "get_deals"
                           /\ resp[1].count = resp[1].args.limit)
        /\ resp[1].op = "get_stats" =>
              resp[1].active_deals =
                 Cardinality({r \in deals : \/ r["valid_until"] = NoTime
                                             \/ r["valid_until"] > now})

\* GET /api/deals answered at the very time a stored deal's valid_until
\* names, without that deal and with a deal that has no valid_until
C13_Witness ==
    /\ pc[1] = "done" /\ resp[1].op = "get_deals" /\ resp[1].status = 200
    /\ \E r \in deals : r["valid_until"] = now /\ r \in Selected(1)
                          /\ r \notin Listed(1)
    /\ \E r \in Listed(1) : r["valid_until"] = NoTime

---------------------------------------------------------------------------
(* Properties of _normalize_deals *)

\* the candidates of the call that returned, and the positions (from 1) of
\* those that are mappings, in order: the k-th output record comes from the
\* k-th of them
CallIn == [i \in 1..Len(nret.of.deals) |-> Candidates[nret.of.deals[i]]]
RECURSIVE DictPosFrom(_, _)
DictPosFrom(l, i) ==
    IF i > Len(l) THEN <<>>
    ELSE (IF IsDict(l[i]) THEN <<i>> ELSE <<>>) \o DictPosFrom(l, i + 1)
DictPos == DictPosFrom(CallIn, 1)
Present(d, k) == k \in DOMAIN d /\ d[k] # None /\ d[k] # ""

\* C14: every record _normalize_deals returns has a store_name and a
\* product_name that are non-empty texts.
C14_NamesNonEmpty ==
    nret.op = "returned" =>
        \A k \in 1..Len(nret.out) :
            /\ nret.out[k]["store_name"] \notin {None, "", NonText}
            /\ nret.out[k]["product_name"] \notin {None, "", NonText}
            /\ Len(nret.out[k]["store_name"]) > 0
            /\ Len(nret.out[k]["product_name"]) > 0

\* a call without default store that returned a record for a candidate with
\* empty texts only
C14_Witness ==
    /\ nret.op = "returned" /\ nret.of.default_store = None
    /\ \E k \in 1..Len(nret.out) :
         /\ CallIn[DictPos[k]] = Candidates[7]
         /\ nret.out[k]["store_name"] = "Unknown Store"

\* C15: the product_name of an output record is the candidate's own
\* product_name when that is non-empty, else the first non-empty of
\* description, title, name, and a generated placeholder only when all four
\* are missing or empty (names are cut to the column width).
C15_FallbackOrder ==
    nret.op = "returned" =>
        /\ Len(nret.out) = Len(DictPos)
        /\ \A k \in 1..Len(nret.out) :
              LET d  == CallIn[DictPos[k]]
                  pn == nret.out[k]["product_name"]
              IN  CASE Present(d, "product_name") ->
                         pn = Prefix(d["product_name"], PRODUCT_NAME_MAX)
                    [] ~Present(d, "product_name") /\ Present(d, "description") ->
                         pn = d["description"]
                    [] ~Present(d, "product_name") /\ ~Present(d, "description")
                       /\ Present(d, "title") ->
                         pn = d["title"]
                    [] ~Present(d, "product_name") /\ ~Present(d, "description")
                       /\ ~Present(d, "title") /\ Present(d, "name") ->
                         pn = d["name"]
                    [] OTHER ->
                         /\ pn \notin {Get(d, "product_name"),
                                        Get(d, "description"),
                                        Get(d, "title"), Get(d, "name")}
                         /\ Len(pn) > Len(nret.of.fallback_name_prefix)
                         /\ Prefix(pn, Len(nret.of.fallback_name_prefix))
                               = nret.of.fallback_name_prefix

\* a candidate with a description and neither product_name nor title, named
\* after its description, and one with description and title, named after
\* its description
C15_Witness ==
    /\ nret.op = "returned"
    /\ \E k \in 1..Len(nret.out) :
         /\ CallIn[DictPos[k]] = Candidates[12]
         /\ nret.out[k]["product_name"] = "Buy one get one free"
    /\ \E k \in 1..Len(nret.out) :
         /\ CallIn[DictPos[k]] = Candidates[2]
         /\ nret.out[k]["product_name"] = "Buy one get one free"

\* a candidate that names no store and no product in any field
NoIdentity(d) ==
    /\ IsDict(d)
    /\ \A k \in {"store_name", "store", "product_name", "description",
                  "title", "name"} : ~Present(d, k)

\* C20: called without a default store on a list whose names are all texts,
\* _normalize_deals returns, and returns no record for a candidate that
\* names neither a store nor a product in any field.
C20_NoIdentityDropped ==
    (/\ nret.op # "none"
     /\ nret.of.default_store = None
     /\ \A i \in 1..Len(CallIn) : Get(CallIn[i], "product_name") # NonText)
    => /\ nret.op = "returned"
       /\ Len(nret.out) =
             Cardinality({i \in 1..Len(CallIn) :
                             IsDict(CallIn[i]) /\ ~NoIdentity(CallIn[i])})

\* C16: a product name that reached the end of the pipeline is stored; the
\* stored product_name is the name itself when it has at most 500
\* characters and its first 500 characters otherwise.
C16_Truncation ==
    trip.stage \in {"stored", "rejected"} =>
        /\ trip.stage = "stored"
        /\ trip.record["product_name"] =
              IF Len(trip.raw) > PRODUCT_NAME_MAX
              THEN SubSeq(trip.raw, 1, PRODUCT_NAME_MAX)
              ELSE trip.raw


---------------------------------------------------------------------------
(* Properties of the record the upsert step applies *)

Unparseable(s, c) ==
    /\ IsDict(Samples[s])
    /\ c \in DOMAIN Samples[s]
    /\ Samples[s][c] # None
    /\ ~IsIso(Samples[s][c])

\* the ids the table held when the request began
PreIds == {p["id"] : p \in pre[1]}
\* item i is the only item of the batch with its (store_name, product_name)
OnlyOfItsKey(i) ==
    \A j \in 1..Len(batch[1]) :
        (j # i /\ IsDict(Samples[batch[1][j]]))
            => SampleKey(batch[1][j]) # SampleKey(batch[1][i])
\* the rows the committed request inserted for item i
InsertedBy(i) ==
    {r \in RowsOf(batch[1][i]) : r["id"] \notin PreIds}

\* C18: a valid_from or valid_until that is a text no timestamp can be parsed
\* from is handled as an absent key: an update leaves the stored value of
\* that column as it was, and an insert gives the column its insert default.
C18_ParseFailureIsAbsence ==
    /\ \A u \in lastUpd[1] : \A c \in DateCols :
          Unparseable(u.sample, c) => u.after[c] = u.before[c]
    /\ BulkOk(1) =>
          \A i \in live[1] : \A c \in DateCols :
              (OnlyOfItsKey(i) /\ Unparseable(batch[1][i], c)) =>
                  \A r \in InsertedBy(i) :
                      r[c] = IF c = "valid_from" THEN now ELSE NoTime

\* C19: a row the bulk upsert inserted has created_at and updated_at equal
\* to the insertion time and a valid_from that is not null, equal to the
\* insertion time when the record had no usable valid_from (key missing,
\* null, or a text that is no timestamp).
C19_InsertDefaults ==
    BulkOk(1) =>
        \A i \in live[1] :
            OnlyOfItsKey(i) =>
                \A r \in InsertedBy(i) :
                    /\ r["created_at"] = now
                    /\ r["updated_at"] = now
                    /\ r["valid_from"] # NoTime
                    /\ Col(SampleData[batch[1][i]], "valid_from") = NoTime
                          => r["valid_from"] = now

\* a committed insert, after the clock has advanced, of the Aldi adapter's
\* record, whose valid_from is null
C19_Witness ==
    /\ BulkOk(1)
    /\ now > 0
    /\ \E i \in live[1] :
         /\ OnlyOfItsKey(i)
         /\ "valid_from" \in DOMAIN Samples[batch[1][i]]
         /\ Samples[batch[1][i]]["valid_from"] = None
         /\ InsertedBy(i) # {}

---------------------------------------------------------------------------
(* Properties of the seeding of `stores` *)

\* every import that was started has ended, and at least one was
SeedingOver ==
    /\ \A p \in Importers : seed[p].pc \in {"idle", "done"}
    /\ \E p \in Importers : seed[p].pc = "done"

\* C30: however often and from whichever table _init_db_once runs, no two
\* Store rows have the same name, once the imports are over each seed name
\* has exactly one row, and no step of an import changes or removes a Store
\* row that exists or changes the table `deals`.
C30_SeedingIdempotent ==
    /\ [](/\ \A r1 \in stores : \A r2 \in stores :
               r1.name = r2.name => r1 = r2
          /\ SeedingOver =>
               \A n \in SeedNames :
                   Cardinality({r \in stores : r.name = n}) = 1)
    /\ [][(\A r \in stores : r \in stores') /\ deals' = deals]_vars

\* two imports are over on a table where an operator had changed the walmart
\* row: the row is as it was, the two other seeds were added, and the table
\* `deals` holds its row
C30_Witness ==
    /\ \A p \in Importers : seed[p].pc = "done"
    /\ \E r \in stores : r.name = "walmart" /\ r.display_name = "Wal-Mart"
    /\ {r.name : r \in stores} = SeedNames
    /\ deals # {}

---------------------------------------------------------------------------
(* Properties of the retention sweep and of the life of a row *)

\* C21: the sweep removes exactly the rows whose created_at is more than
\* RETENTION_DAYS before the sweep time, whatever their valid_until and
\* updated_at; the other rows and the table `stores` stay as they are, and
\* deleted_count is the number of rows removed.
C21_RetentionSweep ==
    [][(pc[1] = "idle" /\ resp'[1].op = "cleanup") =>
          /\ deals' = {r \in deals : r["created_at"] + 30 >= now}
          /\ resp'[1].deleted = Cardinality(deals \ deals')
          /\ resp'[1].status = 200
          /\ stores' = stores]_vars

\* a sweep that removed a row that was still active and had been updated at
\* the sweep time, and kept a younger row
C21_Witness ==
    /\ pc[1] = "done" /\ resp[1].op = "cleanup"
    /\ resp[1].deleted >= 1
    /\ \E r \in pre[1] \ deals :
         /\ IsActive(r, now)
         /\ r["updated_at"] = now
         /\ r["created_at"] < now
    /\ deals # {}

ReadOps == {"health", "get_stores", "get_deals", "get_deals_by_store",
            "search_deals", "get_stats"}

\* C22: a row of `deals` disappears only in a step of the retention sweep or
\* of delete-sample-deals, a row appears or changes only in the commit of a
\* bulk upsert, and a step of a read endpoint leaves the table as it is.
C22_DealLifecycleFrame ==
    [][/\ (\E r \in deals : \A r2 \in deals' : r2["id"] # r["id"])
            => \E w \in Workers :
                  /\ pc[w] = "idle" /\ pc'[w] = "done"
                  /\ resp'[w].op \in {"cleanup", "delete_sample"}
       /\ (\E r2 \in deals' : r2 \notin deals)
            => \E w \in Workers :
                  /\ pc[w] = "loop" /\ pc'[w] = "done"
                  /\ resp'[w].op = "bulk"
       /\ (\E w \in Workers :
              /\ pc[w] = "idle" /\ pc'[w] = "done"
              /\ resp'[w].op \in ReadOps)
            => deals' = deals]_vars

\* GET /api/stores answered from a database whose table `deals` holds rows,
\* one of them no longer active
C22_Witness ==
    /\ pc[1] = "done" /\ resp[1].op = "get_stores"
    /\ resp[1].count = Cardinality(SeededStores)
    /\ \E r \in deals : ~IsActive(r, now)
    /\ deals = pre[1]

---------------------------------------------------------------------------
(* Properties of an adapter's contribution to the batch *)

\* what run_<adapter>_scraper returns when its adapter returned the list of
\* the call: the list of _normalize_deals, or [] when the call raised
Contributed ==
    TryNormalize(Returned(CallIn), CallIn, nret.of.default_store,
                 nret.of.fallback_name_prefix).out

\* C23: when the normalization of one candidate fails, the adapter still
\* contributes the normalized record of every other candidate of the list.
C23_NormalizationContained ==
    nret.op # "none" =>
        \A i \in 1..Len(CallIn) :
            (/\ IsDict(CallIn[i])
             /\ ~ClampRaises(CallIn[i], i - 1, nret.of.fallback_name_prefix))
            => \E k \in 1..Len(Contributed) :
                  Contributed[k] =
                      NormalizeOne(CallIn[i], i - 1, nret.of.default_store,
                                   nret.of.fallback_name_prefix)

---------------------------------------------------------------------------
(* Properties of a sequence of writes to one row *)

\* the elements of the committed body that are mappings
DictItems == {i \in 1..Len(batch[1]) : IsDict(Samples[batch[1][i]])}
\* Every mapping of the body has both key columns, so that no INSERT can
\* raise: the loop body then raises for the elements that are no mapping and
\* for no other, and `added` counts the mappings.
AppliedAreDicts ==
    /\ \A i \in DictItems : Valid(batch[1][i])
    /\ resp[1].added = Cardinality(DictItems)
\* record s carries a value that is not null under key c
Carries(s, c) ==
    /\ c \in DOMAIN SampleData[s]
    /\ SampleData[s][c] # (IF c \in DateCols THEN NoTime ELSE None)

\* C24: after a committed body, for every applied record and every column
\* it carries a value for, unless a later applied record of the same
\* (store_name, product_name) has that column's key, the row of the pair
\* holds the record's value, whatever else the body contains.
C24_LastWriteWins ==
    (BulkOk(1) /\ AppliedAreDicts) =>
        \A i \in DictItems : \A c \in allowed_fields :
            (/\ Carries(batch[1][i], c)
             /\ \A j \in DictItems :
                   (j > i /\ SampleKey(batch[1][j]) = SampleKey(batch[1][i]))
                      => c \notin DOMAIN SampleData[batch[1][j]])
            => \E r \in RowsOf(batch[1][i]) :
                  r[c] = SampleData[batch[1][i]][c]

\* C25: in every step, a row that stays in the table keeps its created_at,
\* its updated_at does not decrease, and a row that was changed has the
\* processing time as updated_at; in every state no row has an updated_at
\* earlier than its created_at.
C25_Timestamps ==
    /\ [](\A r \in deals : r["updated_at"] >= r["created_at"])
    /\ [][\A r \in deals : \A r2 \in deals' :
             r2["id"] = r["id"] =>
                /\ r2["created_at"] = r["created_at"]
                /\ r2["updated_at"] >= r["updated_at"]
                /\ r2 # r => r2["updated_at"] = now]_vars

\* a committed update, some time after the insert, by a record that carries
\* an id and a created_at
C25_Witness ==
    /\ BulkOk(1)
    /\ \E u \in lastUpd[1] :
         /\ {"id", "created_at"} \subseteq DOMAIN Samples[u.sample]
         /\ u.after \in deals
         /\ u.before \in pre[1]
         /\ u.after["updated_at"] > u.before["updated_at"]
         /\ u.after["created_at"] # Samples[u.sample]["created_at"]
         /\ u.after["id"] # Samples[u.sample]["id"]

---------------------------------------------------------------------------
(* Properties of the placeholder names *)

\* a candidate without a usable product_name, description, title and name
Nameless(d) ==
    /\ IsDict(d)
    /\ \A k \in {"product_name", "description", "title", "name"} :
          ~Present(d, k)
\* the placeholders of two different adapters differ at all positions
PlaceholdersDiffer ==
    \A a \in 1..NAdapters : \A b \in 1..NAdapters :
        \A k1 \in 1..MaxCands : \A k2 \in 1..MaxCands :
            a # b => NamePrefix[a] \o " #" \o ToString(k1)
                        # NamePrefix[b] \o " #" \o ToString(k2)

\* C26: a candidate with no usable name field that is the k-th element of
\* the list handed to _normalize_deals is named "<prefix> #k"; two such
\* candidates of one list get different names, and so do two such
\* candidates of different adapters of a run.
C26_PlaceholderPosition ==
    nret.op = "returned" =>
        /\ \A k \in 1..Len(nret.out) :
              Nameless(CallIn[DictPos[k]]) =>
                  nret.out[k]["product_name"] =
                      nret.of.fallback_name_prefix \o " #"
                         \o ToString(DictPos[k])
        /\ \A k1 \in 1..Len(nret.out) : \A k2 \in 1..Len(nret.out) :
              (/\ k1 # k2
               /\ Nameless(CallIn[DictPos[k1]])
               /\ Nameless(CallIn[DictPos[k2]]))
              => nret.out[k1]["product_name"] # nret.out[k2]["product_name"]
        /\ PlaceholdersDiffer

\* a list of three whose first element is no mapping and whose second and
\* third have no usable name: they are named #2 and #3
C26_Witness ==
    /\ nret.op = "returned"
    /\ Len(CallIn) = 3
    /\ ~IsDict(CallIn[1])
    /\ Nameless(CallIn[2]) /\ Nameless(CallIn[3])
    /\ nret.of.fallback_name_prefix = "Dollar General deal"
    /\ nret.out[1]["product_name"] = "Dollar General deal #2"
    /\ nret.out[2]["product_name"] = "Dollar General deal #3"

---------------------------------------------------------------------------
(* Properties of the size of the batch *)

\* C27: no adapter contributes more than 50 records to the combined batch,
\* and the batch handed to upload_deals has at most 50 records per adapter.
C27_PerAdapterCap ==
    /\ \A i \in 1..Len(produced) : Len(produced[i]) <= 50
    /\ Len(all_deals) <= 50 * NAdapters
    /\ Len(posted) <= 50 * NAdapters

---------------------------------------------------------------------------
(* Properties of the upload *)

\* the answers with status code 200
Http200 == {"200", "200_not_json"}
\* the posts whose target applied the batch to its Deal table: the bulk
\* endpoint answers 200 with a JSON body after its commit, and a target whose
\* answer did not arrive in time handled the request all the same
AppliedPosts == {i \in 1..Len(posts) : posts[i].answer \in {"200", "timeout"}}

\* C29: upload_deals posts to api_url first, posts to the local fallback
\* only after the first target failed and only when api_url is not a
\* 127.0.0.1 address, stops at the first HTTP 200, returns True exactly when
\* some target answered HTTP 200, and so the batch is applied by at most one
\* target and at most once.
C29_UploadFallback ==
    (rstep = 7 /\ all_deals # <<>>) =>
        /\ Len(posts) \in {1, 2}
        /\ posts[1].url = api_url
        /\ Len(posts) = 2 =>
              /\ posts[2].url = LOCAL_URL
              /\ ~StartsWith(api_url, "http://127.0.0.1")
              /\ posts[1].answer \notin Http200
        /\ \A i \in 1..Len(posts) :
              posts[i].answer \in Http200 => i = Len(posts)
        /\ upload_ok <=> \E i \in 1..Len(posts) : posts[i].answer \in Http200
        /\ Cardinality(AppliedPosts) <= 1

---------------------------------------------------------------------------
(* Properties of the Dollar General HTTP helper *)

\* the failures after which a retry is meant to happen
Transient == {"502", "503", "504", "transport"}
\* the requests of the k-th call of _get_json
RequestsOf(k) == {i \in 1..Len(fetch.sent) : fetch.sent[i].call = k}

\* C28: one call of _get_json issues at most 3 requests, returns at the
\* first successful one without a further request, retries only after a
\* transient failure (HTTP 502, 503, 504 or a transport error) and raises
\* the last failure once the attempts are exhausted;
\* fetch_publication_products ends after at most 6 requests, the second
\* three without locale and only after HTTP 422.
C28_BoundedRetry ==
    /\ \A k \in {1, 2} : Cardinality(RequestsOf(k)) <= 3
    /\ \A i \in 1..Len(fetch.sent) :
          fetch.sent[i].answer = "ok" =>
              /\ i = Len(fetch.sent)
              /\ fetch.pc = "done" /\ fetch.out = "returned"
    /\ \A i \in 1..(Len(fetch.sent) - 1) :
          fetch.sent[i + 1].call = fetch.sent[i].call =>
              fetch.sent[i].answer \in Transient
    /\ (fetch.pc = "done" /\ fetch.out = "raised") =>
          /\ fetch.exc = fetch.sent[Len(fetch.sent)].answer
          /\ fetch.sent[Len(fetch.sent)].attempt = 3
    /\ Len(fetch.sent) <= 6
    /\ \A i \in RequestsOf(1) : fetch.sent[i].locale
    /\ \A i \in RequestsOf(2) :
          /\ ~fetch.sent[i].locale
          /\ \E j \in RequestsOf(1) : fetch.sent[j].answer = "422"

=============================================================================
